---- MODULE Spec2Model ----
(***************************************************************************)
(* A model of RegionSet (src/regionset.go): a mutex-guarded sequence of    *)
(* regions kept merged by Add / AddAll / Adjust / Subtract, with a keyed   *)
(* registry of change callbacks.                                           *)
(*                                                                         *)
(* Sequences of the model are 1-based; the code's 0-based indices are kept *)
(* as they are and translated by At / SetAt / copy.                        *)
(***************************************************************************)
EXTENDS Integers, Sequences, FiniteSets, TLC

\* ------------------------------------------------------------------ bounds
\* coordinates of the buffer are 0..MaxCoord
MaxCoord == 3
\* coordinates used where the callback registry is exercised: 0..NotifyCoord
NotifyCoord == 1
\* most regions stored where the callback registry is exercised
NotifyLen == 3
\* most regions the stored sequence may hold while an operation runs
MaxLen == 4
\* longest batch handed to AddAll
MaxBatch == 3
\* operations started, in all, by the threads of a concurrent run
MaxOps == 2
\* most regions held by the receiver of Cut and by the set Cut returns
CutLen == 2

Min(a, b) == IF a <= b THEN a ELSE b
Max(a, b) == IF a >= b THEN a ELSE b

\* ------------------------------------------------- the Region primitive
\* A region is <<begin, end>> with begin <= end.
Region == {<<b, e>> : b \in 0..MaxCoord, e \in 0..MaxCoord} \ {<<b, e>> \in (0..MaxCoord) \X (0..MaxCoord) : b > e}

Begin(r) == r[1]
End(r) == r[2]

\* Region.Empty: begin == end
Empty(r) == Begin(r) = End(r)

\* Region.Size
Size(r) == End(r) - Begin(r)

\* Region.Contains(point)
Contains(r, point) == point >= Begin(r) /\ point <= End(r)

\* Region.Covers: r's extent fully contains r2's extent
Covers(r, r2) == Contains(r, Begin(r2)) /\ End(r2) <= End(r)

\* Region.Intersects: equal, or the common part has a positive size
Intersects(r, other) ==
    \/ r = other
    \/ /\ (Contains(r, Begin(other)) \/ Contains(other, Begin(r)))
       /\ Min(End(r), End(other)) - Max(Begin(r), Begin(other)) > 0

\* Region.Cover: the smallest region covering both
Cover(r, other) == <<Min(Begin(r), Begin(other)), Max(End(r), End(other))>>

\* Region.Cut: the left and/or right remainder of r once other is cut away
RegionCut(r, other) ==
    LET left == IF Contains(r, Begin(other)) THEN <<(<<Begin(r), Begin(other)>>)>> ELSE <<>>
        right == IF Contains(r, End(other)) THEN <<(<<End(other), End(r)>>)>> ELSE <<>>
        both == left \o right
    IN IF Len(both) = 0 /\ ~Covers(other, r) THEN <<r>> ELSE both

\* Region.Adjust applied to one endpoint
AdjustPoint(x, position, delta) ==
    IF x >= position THEN x + delta
    ELSE IF position + delta - x < 0 THEN position + delta ELSE x

\* Region.Adjust(position, delta)
RegionAdjust(r, position, delta) ==
    <<AdjustPoint(Begin(r), position, delta), AdjustPoint(End(r), position, delta)>>

\* ------------------------------------------------------ 0-based slices
At(s, i) == s[i + 1]
SetAt(s, i, v) == [s EXCEPT ![i + 1] = v]

\* Go's copy(s[d:], s[lo:hi]) on one slice s (memmove semantics)
copy(s, d, lo, hi) ==
    LET n == Min(Len(s) - d, hi - lo)
    IN [k \in 1..Len(s) |-> IF k - 1 >= d /\ k - 1 < d + n THEN s[lo + (k - 1 - d) + 1] ELSE s[k]]

\* ---------------------------------------------- RegionSet: pure parts
\* The test of overlaps' loop body: reference == r.regions[i] ||
\* reference.Intersects(r.regions[i]) || reference.Covers(r.regions[i])
isOverlap(reference, stored) ==
    reference = stored \/ Intersects(reference, stored) \/ Covers(reference, stored)

\* RegionSet.overlaps: the indices i in [start, end), ascending, of the
\* regions that overlap reference
RECURSIVE overlaps(_, _, _, _)
overlaps(regs, reference, start, end) ==
    IF start >= end THEN <<>>
    ELSE (IF isOverlap(reference, At(regs, start)) THEN <<start>> ELSE <<>>)
         \o overlaps(regs, reference, start + 1, end)

\* first loop of merge: regions[reference] = regions[reference].Cover(regions[j])
\* for the entries j of the merge list from position k (1-based) on
RECURSIVE mergeCover(_, _, _, _)
mergeCover(regs, reference, mlist, k) ==
    IF k > Len(mlist) THEN regs
    ELSE mergeCover(SetAt(regs, reference, Cover(At(regs, reference), At(regs, mlist[k]))),
                    reference, mlist, k + 1)

\* second loop of merge, from iteration i (0-based) on; adj equals i
RECURSIVE mergeShift(_, _, _)
mergeShift(regs, mlist, i) ==
    IF i >= Len(mlist) THEN regs
    ELSE LET l == Len(mlist) - 1
             adj == i
             j1 == mlist[i + 1]
             j2 == IF i < l THEN mlist[i + 2] - 1 ELSE Len(regs) - adj
             moved == IF j2 > 0 /\ j1 + 1 <= j2 THEN copy(regs, j1 - adj, j1 + 1, j2) ELSE regs
         IN mergeShift(moved, mlist, i + 1)

\* RegionSet.merge(reference, merge)
merge(regs, reference, mlist) ==
    SubSeq(mergeShift(mergeCover(regs, reference, mlist, 1), mlist, 0),
           1, Len(regs) - Len(mlist))

\* the loop of flush from position i on
RECURSIVE flushFrom(_, _)
flushFrom(regs, i) ==
    IF i >= Len(regs) THEN regs
    ELSE LET ov == overlaps(regs, At(regs, i), 0, i)
         IN IF Len(ov) = 0 THEN flushFrom(regs, i + 1)
            ELSE flushFrom(merge(regs, ov[1], Append(Tail(ov), i)), i + 1)

\* the coalescing loop of flush (before the guard is released)
flushRegions(regs) == flushFrom(regs, 1)

\* Add that drops an overlapping r2 without taking the union
AddRegionsNoUnion(regs, r2) ==
    IF Len(overlaps(regs, r2, 0, Len(regs))) = 0 THEN Append(regs, r2) ELSE regs

\* the guarded body of Add
AddRegions(regs, r2) ==
    LET ov == overlaps(regs, r2, 0, Len(regs))
        appended == Append(regs, r2)
    IN IF Len(ov) = 0 THEN appended
       ELSE merge(appended, ov[1], Append(Tail(ov), Len(appended) - 1))

\* the loop of AddAll over the reduced batch rs, from its k-th entry (1-based)
RECURSIVE AddAllFrom(_, _, _, _)
AddAllFrom(regs, rs, k, start) ==
    IF k > Len(rs) THEN regs
    ELSE LET ov == overlaps(regs, rs[k], 0, start)
         IN IF Len(ov) = 0 THEN AddAllFrom(regs, rs, k + 1, start)
            ELSE LET ov2 == Append(Tail(ov), Len(regs) - 1)
                 IN AddAllFrom(merge(regs, ov[1], ov2), rs, k + 1, start - Len(ov2))

\* the guarded body of AddAll
AddAllRegions(regs, rs) ==
    LET reduced == flushRegions(rs)
    IN AddAllFrom(regs \o reduced, reduced, 1, Len(regs))

\* CutInto without the test for empty remainders
RECURSIVE CutIntoKeepEmpty(_, _, _)
CutIntoKeepEmpty(ret, xors, k) ==
    IF k > Len(xors) THEN ret
    ELSE CutIntoKeepEmpty(AddRegions(ret, xors[k]), xors, k + 1)

\* the non-empty remainders of one stored region, added to ret
RECURSIVE CutInto(_, _, _)
CutInto(ret, xors, k) ==
    IF k > Len(xors) THEN ret
    ELSE CutInto(IF ~Empty(xors[k]) THEN AddRegions(ret, xors[k]) ELSE ret, xors, k + 1)

\* the loop of Cut from stored position i (0-based) on
RECURSIVE CutFrom(_, _, _, _)
CutFrom(regs, r2, i, ret) ==
    IF i >= Len(regs) THEN ret
    ELSE CutFrom(regs, r2, i + 1, CutInto(ret, RegionCut(At(regs, i), r2), 1))

\* RegionSet.Cut: the regions of the returned set
CutRegions(regs, r2) == CutFrom(regs, r2, 0, <<>>)

\* the guarded body of Adjust
AdjustRegions(regs, position, delta) ==
    flushRegions([k \in 1..Len(regs) |-> RegionAdjust(regs[k], position, delta)])

\* ------------------------------------------------------------------ state
VARIABLES
    regions,     \* r.regions
    callbacks,   \* keys of r.onChangeCallbacks
    op,          \* the operation that ran last ("" before the first)
    arg,         \* its argument (<<r2>> of Subtract, <<i>> of Get)
    merged,      \* number of entries the last operation merged away
    fired,       \* invocations of each key's callback by the last operation
    adds,        \* the regions Added, in order, while only Add ran on the empty set
    out,         \* what the last operation handed to its caller (NoResult if not observed)
    cut,         \* the set last returned by Cut: its regions and the keys of its callbacks
    lock,        \* r.lock: the thread that locked it, or Unlocked
    pc,          \* where each thread stands
    call,        \* the operation each thread runs, with its arguments
    r3,          \* Subtract's r3.regions, per thread
    todo,        \* keys the range loop of onChange has yet to produce, per thread
    nops,        \* operations started so far
    base,        \* r.regions when the running group of overlapping operations began
    epi,         \* the operations of that group, in the order they began
    crashed      \* the runtime stopped the program (concurrent map iteration and write)

\* the observers of the operations run one after the other
seqvars == <<op, arg, merged, fired, adds, out, cut>>

\* the state of the threads
convars == <<lock, pc, call, r3, todo, nops, base, epi, crashed>>

vars == <<regions, callbacks, op, arg, merged, fired, adds, out, cut,
          lock, pc, call, r3, todo, nops, base, epi, crashed>>

Threads == {"t1", "t2"}

Unlocked == "free"

\* nothing observed of the last operation's result
NoResult == [kind |-> "none"]

\* no set has been returned by Cut yet
NoSet == [returned |-> FALSE, regions |-> <<>>, callbacks |-> {}]

IdleCall == [op |-> "", rs |-> <<>>, pd |-> <<0, 0>>, key |-> "", cb |-> "", cbkey |-> ""]

\* ------------------------------------------------------ callback registry
\* keys under which callbacks are registered
Keys == {"k1", "k2"}

\* a fresh RegionSet that takes over the registry of the receiver
InheritedCallbacks == callbacks

\* the registry of a RegionSet built as a zero value (rr of AddAll, ret of Cut)
NewSetCallbacks == {}

NoneFired == [k \in Keys |-> 0]

\* RegionSet.onChange: every callback registered in cbs is invoked once;
\* counts holds the invocations per key
onChange(cbs, counts) == [k \in Keys |-> counts[k] + (IF k \in cbs THEN 1 ELSE 0)]

\* onChange run n times on the same registry
RECURSIVE onChangeTimes(_, _, _)
onChangeTimes(cbs, counts, n) ==
    IF n = 0 THEN counts ELSE onChangeTimes(cbs, onChange(cbs, counts), n - 1)

\* number of ret.Add calls Cut makes: the non-empty remainders
RECURSIVE CutAddCount(_, _, _)
CutAddCount(regs, r2, i) ==
    IF i >= Len(regs) THEN 0
    ELSE Len(SelectSeq(RegionCut(At(regs, i), r2), LAMBDA x : ~Empty(x)))
         + CutAddCount(regs, r2, i + 1)

\* adds when the history is no longer a run of at most three Adds on the empty set
NoAdds == <<<<-1, -1>>>>

Batches == UNION {[1..n -> Region] : n \in 0..MaxBatch}

\* the regions and batches used where the callback registry is exercised
NotifyRegion == {r \in Region : End(r) <= NotifyCoord}
NotifyBatches == UNION {[1..n -> NotifyRegion] : n \in 0..MaxBatch}

Init ==
    /\ regions = <<>>
    /\ callbacks = {}
    /\ op = ""
    /\ arg = <<>>
    /\ merged = 0
    /\ fired = NoneFired
    /\ adds = <<>>
    /\ out = NoResult
    /\ cut = NoSet
    /\ lock = Unlocked
    /\ pc = [t \in Threads |-> "idle"]
    /\ call = [t \in Threads |-> IdleCall]
    /\ r3 = [t \in Threads |-> <<>>]
    /\ todo = [t \in Threads |-> {}]
    /\ nops = 0
    /\ base = <<>>
    /\ epi = <<>>
    /\ crashed = FALSE

\* Add(r2): guarded body, then onChange
Add(r2) ==
    /\ Len(regions) + 1 <= MaxLen
    /\ regions' = AddRegions(regions, r2)
    /\ fired' = onChange(callbacks, NoneFired)
    /\ op' = "Add" /\ arg' = <<>>
    /\ merged' = Len(regions) + 1 - Len(regions')
    /\ adds' = IF adds # NoAdds /\ Len(adds) < 3 THEN Append(adds, r2) ELSE NoAdds
    /\ UNCHANGED <<callbacks, out, cut, convars>>

\* what AddAll(rs) does to the set: rr.flush() notifies rr's registry, then
\* the guarded body, then onChange
AddAllEffects(rs) ==
    /\ Len(regions) + Len(rs) <= MaxLen
    /\ regions' = AddAllRegions(regions, rs)
    /\ fired' = onChange(callbacks, onChange(NewSetCallbacks, NoneFired))
    /\ op' = "AddAll" /\ arg' = <<>>
    /\ merged' = Len(regions) + Len(rs) - Len(regions')
    /\ adds' = NoAdds
    /\ UNCHANGED <<callbacks, cut, convars>>

\* AddAll(rs), the caller's slice not looked at afterwards
AddAll(rs) ==
    /\ AddAllEffects(rs)
    /\ UNCHANGED out

\* the array under rr.regions while rr.flush() runs its loop from position i:
\* arr is the whole array, n the length of rr.regions; merge writes in place
\* and only shortens the slice
RECURSIVE flushArrayFrom(_, _, _)
flushArrayFrom(arr, n, i) ==
    IF i >= n THEN arr
    ELSE LET regs == SubSeq(arr, 1, n)
             ov == overlaps(regs, At(regs, i), 0, i)
             mlist == Append(Tail(ov), i)
         IN IF Len(ov) = 0 THEN flushArrayFrom(arr, n, i + 1)
            ELSE flushArrayFrom(mergeShift(mergeCover(regs, ov[1], mlist, 1), mlist, 0)
                                    \o SubSeq(arr, n + 1, Len(arr)),
                                n - Len(mlist), i + 1)

\* what the caller's slice holds after AddAll(rs): rr := RegionSet{regions: rs}
\* (line 135) shares the caller's array, and rr.flush() (line 137) merges in it
callerSlice(rs) == flushArrayFrom(rs, Len(rs), 1)

\* AddAll(rs), and what the caller finds in rs afterwards
AddAllCaller(rs) ==
    /\ AddAllEffects(rs)
    /\ out' = [kind |-> "slice", val |-> callerSlice(rs)]

\* Subtract(r2): r3 := Cut(r2) (each ret.Add notifies ret's registry),
\* the swap, then onChange
Subtract(r2) ==
    /\ regions' = CutRegions(regions, r2)
    /\ fired' = onChange(callbacks, onChangeTimes(NewSetCallbacks, NoneFired, CutAddCount(regions, r2, 0)))
    /\ op' = "Subtract" /\ arg' = <<r2>>
    /\ merged' = 0
    /\ adds' = NoAdds
    /\ UNCHANGED <<callbacks, out, cut, convars>>

\* the region coordinates stay inside the buffer
InBuffer(regs) == \A k \in 1..Len(regs) : regs[k] \in Region

\* Adjust(position, delta): every region adjusted, then flush (which notifies)
Adjust(position, delta) ==
    /\ InBuffer([k \in 1..Len(regions) |-> RegionAdjust(regions[k], position, delta)])
    /\ regions' = AdjustRegions(regions, position, delta)
    /\ fired' = onChange(callbacks, NoneFired)
    /\ op' = "Adjust" /\ arg' = <<>>
    /\ merged' = Len(regions) - Len(regions')
    /\ adds' = NoAdds
    /\ UNCHANGED <<callbacks, out, cut, convars>>

\* Clear(): truncate, then flush (which notifies)
Clear ==
    /\ regions' = flushRegions(SubSeq(regions, 1, 0))
    /\ fired' = onChange(callbacks, NoneFired)
    /\ op' = "Clear" /\ arg' = <<>>
    /\ merged' = 0
    /\ adds' = <<>>
    /\ UNCHANGED <<callbacks, out, cut, convars>>

\* AddOnChange(key, cb)
AddOnChange(key) ==
    /\ callbacks' = callbacks \cup {key}
    /\ op' = "AddOnChange" /\ arg' = <<>>
    /\ merged' = 0
    /\ fired' = NoneFired
    /\ UNCHANGED <<regions, adds, out, cut, convars>>

\* ClearOnChange(key)
ClearOnChange(key) ==
    /\ callbacks' = callbacks \ {key}
    /\ op' = "ClearOnChange" /\ arg' = <<>>
    /\ merged' = 0
    /\ fired' = NoneFired
    /\ UNCHANGED <<regions, adds, out, cut, convars>>

\* the five mutating operations, run one after the other
Next ==
    \/ \E r2 \in Region : Add(r2)
    \/ \E rs \in Batches : AddAll(rs)
    \/ \E r2 \in Region : Subtract(r2)
    \/ \E position \in 0..MaxCoord, delta \in (0 - MaxCoord)..MaxCoord : Adjust(position, delta)
    \/ Clear

Spec == Init /\ [][Next]_vars

\* Add, Subtract and Clear alone
NextAddSubtract ==
    \/ \E r2 \in Region : Add(r2)
    \/ \E r2 \in Region : Subtract(r2)
    \/ Clear

SpecAddSubtract == Init /\ [][NextAddSubtract]_vars

\* the mutating operations together with the callback registry
NextNotify ==
    \/ \E r2 \in NotifyRegion : Len(regions) + 1 <= NotifyLen /\ Add(r2)
    \/ \E rs \in NotifyBatches : Len(regions) + Len(rs) <= NotifyLen /\ AddAll(rs)
    \/ \E r2 \in NotifyRegion : Subtract(r2)
    \/ \E position \in 0..NotifyCoord, delta \in (0 - NotifyCoord)..NotifyCoord : Adjust(position, delta)
    \/ Clear
    \/ \E key \in Keys : AddOnChange(key)
    \/ \E key \in Keys : ClearOnChange(key)

SpecNotify == Init /\ [][NextNotify]_vars

\* ------------------------------------------------------------------ queries
\* a returned set whose slice is a window on the receiver's array
retSharesReceiverArray == TRUE

\* Cut's ret is a zero RegionSet (line 212): ret.regions is nil and the append
\* of ret.Add allocates, so the returned slice shares no array with r.regions
retSharesArray == FALSE

\* what a holder of regs sees after a writer that shares its array stored written
Overwritten(regs, written) ==
    [k \in 1..Len(regs) |-> IF k <= Len(written) THEN written[k] ELSE regs[k]]

\* Cut(r2): reads r.regions and Adds the non-empty remainders to ret, which
\* notifies ret's registry; r itself is left alone and does not notify
Cut(r2) ==
    /\ cut' = [returned |-> TRUE, regions |-> CutRegions(regions, r2), callbacks |-> NewSetCallbacks]
    /\ fired' = onChangeTimes(NewSetCallbacks, NoneFired, CutAddCount(regions, r2, 0))
    /\ op' = "Cut" /\ arg' = <<>>
    /\ merged' = 0
    /\ out' = NoResult
    /\ UNCHANGED <<regions, callbacks, adds, convars>>

\* the caller of Cut mutates the set it got: ret.Add(r2)
CutSetAdd(r2) ==
    /\ cut.returned
    /\ Len(cut.regions) + 1 <= CutLen
    /\ cut' = [cut EXCEPT !.regions = AddRegions(cut.regions, r2)]
    /\ regions' = IF retSharesArray THEN Overwritten(regions, cut'.regions) ELSE regions
    /\ fired' = onChange(cut.callbacks, NoneFired)
    /\ op' = "ret.Add" /\ arg' = <<>>
    /\ merged' = 0
    /\ out' = NoResult
    /\ UNCHANGED <<callbacks, adds, convars>>

\* Get that hands out the zero Region for an index out of range
GetResultZero(regs, i) ==
    [kind |-> "region", val |-> IF 0 <= i /\ i < Len(regs) THEN At(regs, i) ELSE <<0, 0>>]

\* Get, line 123: r.regions[i] panics when i is out of range
GetResult(regs, i) ==
    IF 0 <= i /\ i < Len(regs) THEN [kind |-> "region", val |-> At(regs, i)]
    ELSE [kind |-> "panic", val |-> <<>>]

\* the indices handed to Get
GetIndices == (0 - 1)..NotifyLen

\* Get(i): Lock, the deferred Unlock (which also runs when line 123 panics),
\* the indexing
Get(i) ==
    /\ lock = Unlocked
    /\ out' = GetResult(regions, i)
    /\ lock' = Unlocked
    /\ op' = "Get" /\ arg' = <<i>>
    /\ merged' = 0
    /\ fired' = NoneFired
    /\ UNCHANGED <<regions, callbacks, adds, cut, pc, call, r3, todo, nops, base, epi, crashed>>

\* the loop of HasNonEmpty, lines 190-195
HasNonEmptyRegions(regs) == \E k \in 1..Len(regs) : ~Empty(regs[k])

\* HasEmpty as the negation of HasNonEmpty
HasEmptyAsOpposite(regs) == ~HasNonEmptyRegions(regs)

\* the loop of HasEmpty, lines 202-207
HasEmptyRegions(regs) == \E k \in 1..Len(regs) : Empty(regs[k])

\* HasNonEmpty()
HasNonEmpty ==
    /\ out' = [kind |-> "bool", val |-> HasNonEmptyRegions(regions)]
    /\ op' = "HasNonEmpty" /\ arg' = <<>>
    /\ merged' = 0
    /\ fired' = NoneFired
    /\ UNCHANGED <<regions, callbacks, adds, cut, convars>>

\* HasEmpty()
HasEmpty ==
    /\ out' = [kind |-> "bool", val |-> HasEmptyRegions(regions)]
    /\ op' = "HasEmpty" /\ arg' = <<>>
    /\ merged' = 0
    /\ fired' = NoneFired
    /\ UNCHANGED <<regions, callbacks, adds, cut, convars>>

\* Cut and the later life of the set it returns, on sets built by Add with
\* callbacks registered
NextCut ==
    \/ \E r2 \in NotifyRegion : Len(regions) + 1 <= CutLen /\ Add(r2)
    \/ \E key \in Keys : AddOnChange(key)
    \/ \E r2 \in NotifyRegion : Cut(r2)
    \/ \E r2 \in NotifyRegion : CutSetAdd(r2)

SpecCut == Init /\ [][NextCut]_vars

\* AddAll as its caller sees it, on sets built by Add
NextBatch ==
    \/ \E r2 \in NotifyRegion : Len(regions) + 1 <= NotifyLen /\ Add(r2)
    \/ \E rs \in NotifyBatches : Len(regions) + Len(rs) <= NotifyLen /\ AddAllCaller(rs)
    \/ Clear

SpecBatch == Init /\ [][NextBatch]_vars

\* the queries, on sets built by Add and Subtract
NextQuery ==
    \/ \E r2 \in NotifyRegion : Len(regions) + 1 <= NotifyLen /\ Add(r2)
    \/ \E r2 \in NotifyRegion : Subtract(r2)
    \/ \E i \in GetIndices : Get(i)
    \/ HasNonEmpty
    \/ HasEmpty

SpecQuery == Init /\ [][NextQuery]_vars

\* ------------------------------------------------------------- the engine
\* merge and flush on their own, applied once to a sequence of any content
\* (what Adjust can leave behind before it calls flush), with the guard held
\* by the caller.

\* the sequences handed to merge and flush
EngineSeqs == UNION {[1..n -> NotifyRegion] : n \in 0..MaxLen}

InitEngine ==
    /\ regions \in EngineSeqs
    /\ callbacks = {}
    /\ op = ""
    /\ arg = <<>>
    /\ merged = 0
    /\ fired = NoneFired
    /\ adds = <<>>
    /\ out = NoResult
    /\ cut = NoSet
    /\ lock = "t1"
    /\ pc = [t \in Threads |-> "idle"]
    /\ call = [t \in Threads |-> IdleCall]
    /\ r3 = [t \in Threads |-> <<>>]
    /\ todo = [t \in Threads |-> {}]
    /\ nops = 0
    /\ base = <<>>
    /\ epi = <<>>
    /\ crashed = FALSE

\* the members of a set of indices in ascending order
RECURSIVE Ascending(_)
Ascending(S) ==
    IF S = {} THEN <<>>
    ELSE LET m == CHOOSE x \in S : \A y \in S : x <= y
         IN <<m>> \o Ascending(S \ {m})

\* the merge lists for a sequence of n entries and a reference index
MergeLists(n, reference) == {Ascending(S) : S \in SUBSET ((0..(n - 1)) \ {reference})}

\* merge(reference, mlist), called with the guard held
Merge(reference, mlist) ==
    /\ op = ""
    /\ reference < Len(regions)
    /\ mlist \in MergeLists(Len(regions), reference)
    /\ regions' = merge(regions, reference, mlist)
    /\ op' = "merge" /\ arg' = <<reference, mlist>>
    /\ merged' = Len(mlist)
    /\ UNCHANGED <<callbacks, fired, adds, out, cut, convars>>

\* flush(), called with the guard held: the coalescing loop, Unlock, onChange
\* and the deferred Lock
Flush ==
    /\ op = ""
    /\ lock # Unlocked
    /\ regions' = flushRegions(regions)
    /\ fired' = onChange(callbacks, NoneFired)
    /\ op' = "flush" /\ arg' = <<>>
    /\ merged' = Len(regions) - Len(regions')
    /\ UNCHANGED <<callbacks, adds, out, cut, convars>>

NextEngine ==
    \/ \E reference \in 0..(MaxLen - 1), S \in SUBSET (0..(MaxLen - 1)) : Merge(reference, Ascending(S))
    \/ Flush

SpecEngine == InitEngine /\ [][NextEngine]_vars

\* ------------------------------------------------------------------ threads
\* Each thread runs public operations one after the other.  A step that takes
\* r.lock needs it Unlocked; the guarded body of an operation and the Unlock
\* that ends it are one step.

\* arguments the threads pass
ThreadRegion == NotifyRegion
ThreadBatches == {rs \in NotifyBatches : Len(rs) <= 1}
ThreadDeltas == {-1, 1}

\* flush, with the guard kept across r.onChange()
flushGuardKept(t) == t

\* flush: r.lock.Unlock() before r.onChange(); the value of r.lock while t dispatches
flushGuard(t) == Unlocked

Idle(t) == pc[t] = "idle"
\* the operations that change r.regions
Mutators == {"Add", "AddAll", "Subtract", "Adjust", "Clear"}

\* no thread is inside a mutating operation
NoMutation == \A t \in Threads : call[t].op \notin Mutators

\* an operation begins.  A mutating operation joins the running group of
\* overlapping mutations, or opens a new group (from the sequence it finds)
\* when no other mutation is running
BeginOp(t, c) ==
    /\ ~crashed
    /\ Idle(t)
    /\ nops < MaxOps
    /\ nops' = nops + 1
    /\ call' = [call EXCEPT ![t] = c]
    /\ base' = IF c.op \in Mutators /\ NoMutation THEN regions ELSE base
    /\ epi' = CASE c.op \notin Mutators -> epi
               [] NoMutation -> <<c>>
               [] OTHER -> Append(epi, c)

\* the operation of t returns
Return(t) ==
    /\ pc' = [pc EXCEPT ![t] = "idle"]
    /\ call' = [call EXCEPT ![t] = IdleCall]

\* r.lock.Lock() as the first statement of an operation
LockFirst(t, c, label) ==
    /\ BeginOp(t, c)
    /\ lock = Unlocked
    /\ lock' = t
    /\ pc' = [pc EXCEPT ![t] = label]
    /\ UNCHANGED <<regions, callbacks, seqvars, r3, todo, crashed>>

\* r.onChange() is called: the range loop over r.onChangeCallbacks starts
StartOnChange(t) ==
    /\ pc' = [pc EXCEPT ![t] = "onChange"]
    /\ todo' = [todo EXCEPT ![t] = callbacks]

\* Add, line 96
AddLock(t, r2) ==
    /\ Idle(t)
    /\ LockFirst(t, [IdleCall EXCEPT !.op = "Add", !.rs = <<r2>>], "Add_body")

\* Add, lines 97-108: the guarded body, the deferred Unlock, the call of onChange
AddBody(t) ==
    /\ ~crashed /\ pc[t] = "Add_body"
    /\ regions' = AddRegions(regions, call[t].rs[1])
    /\ lock' = Unlocked
    /\ StartOnChange(t)
    /\ UNCHANGED <<callbacks, seqvars, call, r3, nops, base, epi, crashed>>

\* AddAll, line 133
AddAllLock(t, rs) ==
    /\ Idle(t)
    /\ LockFirst(t, [IdleCall EXCEPT !.op = "AddAll", !.rs = rs], "AddAll_body")

\* AddAll, lines 135-160 (rr and its lock are local to the call)
AddAllBody(t) ==
    /\ ~crashed /\ pc[t] = "AddAll_body"
    /\ regions' = AddAllRegions(regions, call[t].rs)
    /\ lock' = Unlocked
    /\ StartOnChange(t)
    /\ UNCHANGED <<callbacks, seqvars, call, r3, nops, base, epi, crashed>>

\* Subtract, line 85: Cut locks the guard (line 213)
SubtractCutLock(t, r2) ==
    /\ Idle(t)
    /\ LockFirst(t, [IdleCall EXCEPT !.op = "Subtract", !.rs = <<r2>>], "Cut_body")

\* Subtract, line 85: Cut's loop and its deferred Unlock (lines 214-223)
SubtractCut(t) ==
    /\ ~crashed /\ pc[t] = "Cut_body"
    /\ r3' = [r3 EXCEPT ![t] = CutRegions(regions, call[t].rs[1])]
    /\ lock' = Unlocked
    /\ pc' = [pc EXCEPT ![t] = "Subtract_lock"]
    /\ UNCHANGED <<regions, callbacks, seqvars, call, todo, nops, base, epi, crashed>>

\* Subtract, line 86
SubtractLock(t) ==
    /\ ~crashed /\ pc[t] = "Subtract_lock"
    /\ lock = Unlocked
    /\ lock' = t
    /\ pc' = [pc EXCEPT ![t] = "Subtract_swap"]
    /\ UNCHANGED <<regions, callbacks, seqvars, call, r3, todo, nops, base, epi, crashed>>

\* Subtract, lines 87-90: the swap, the Unlock, the call of onChange
SubtractSwap(t) ==
    /\ ~crashed /\ pc[t] = "Subtract_swap"
    /\ regions' = r3[t]
    /\ r3' = [r3 EXCEPT ![t] = <<>>]
    /\ lock' = Unlocked
    /\ StartOnChange(t)
    /\ UNCHANGED <<callbacks, seqvars, call, nops, base, epi, crashed>>

\* Adjust, line 26
AdjustLock(t, position, delta) ==
    /\ InBuffer([k \in 1..Len(regions) |-> RegionAdjust(regions[k], position, delta)])
    /\ LockFirst(t, [IdleCall EXCEPT !.op = "Adjust", !.pd = <<position, delta>>], "Adjust_body")

\* Adjust, lines 28-31, and flush up to its call of onChange (lines 70-80)
AdjustBody(t) ==
    /\ ~crashed /\ pc[t] = "Adjust_body"
    /\ regions' = AdjustRegions(regions, call[t].pd[1], call[t].pd[2])
    /\ lock' = flushGuard(t)
    /\ StartOnChange(t)
    /\ UNCHANGED <<callbacks, seqvars, call, r3, nops, base, epi, crashed>>

\* Clear, line 113
ClearLock(t) ==
    /\ Idle(t)
    /\ LockFirst(t, [IdleCall EXCEPT !.op = "Clear"], "Clear_body")

\* Clear, lines 115-116, and flush up to its call of onChange (lines 70-80)
ClearBody(t) ==
    /\ ~crashed /\ pc[t] = "Clear_body"
    /\ regions' = flushRegions(SubSeq(regions, 1, 0))
    /\ lock' = flushGuard(t)
    /\ StartOnChange(t)
    /\ UNCHANGED <<callbacks, seqvars, call, r3, nops, base, epi, crashed>>

\* what a callback may do with the set it observes: read it (Regions stands
\* for Get and Contains too, which take the guard the same way), register
\* itself again or unregister itself
CallbackCalls == {"Regions", "AddOnChange", "ClearOnChange"}

\* the threads whose range loop over r.onChangeCallbacks is running
RangeLoops == {u \in Threads : pc[u] \in {"onChange", "cb_lock", "cb_body"}}

\* r.onChangeCallbacks[key] = cb (line 234); a running range loop may or may
\* not produce an entry created meanwhile
MapAssign(key) ==
    /\ callbacks' = callbacks \cup {key}
    /\ \E seen \in SUBSET RangeLoops :
          todo' = [u \in Threads |->
                      IF u \in seen /\ key \notin callbacks THEN todo[u] \cup {key} ELSE todo[u]]

\* delete(r.onChangeCallbacks, key) (line 241); a running range loop does not
\* produce the deleted entry any more
MapDelete(key) ==
    /\ callbacks' = callbacks \ {key}
    /\ todo' = [u \in Threads |-> todo[u] \ {key}]

\* onChange, lines 245-246: the range loop produces the callback of key, which
\* runs and calls back into the set
OnChangeCall(t, key, name) ==
    /\ ~crashed /\ pc[t] = "onChange"
    /\ key \in todo[t]
    /\ todo' = [todo EXCEPT ![t] = todo[t] \ {key}]
    /\ call' = [call EXCEPT ![t].cb = name, ![t].cbkey = key]
    /\ pc' = [pc EXCEPT ![t] = "cb_lock"]
    /\ UNCHANGED <<regions, callbacks, seqvars, lock, r3, nops, base, epi, crashed>>

\* the callback's call takes the guard (lines 178, 229, 239)
CallbackLock(t) ==
    /\ ~crashed /\ pc[t] = "cb_lock"
    /\ lock = Unlocked
    /\ lock' = t
    /\ pc' = [pc EXCEPT ![t] = "cb_body"]
    /\ UNCHANGED <<regions, callbacks, seqvars, call, r3, todo, nops, base, epi, crashed>>

\* the callback's call does its guarded work and unlocks (lines 179-182,
\* 230-234, 240-241); the callback returns to the range loop
CallbackBody(t) ==
    /\ ~crashed /\ pc[t] = "cb_body"
    /\ CASE call[t].cb = "AddOnChange" -> MapAssign(call[t].cbkey)
         [] call[t].cb = "ClearOnChange" -> MapDelete(call[t].cbkey)
         [] OTHER -> UNCHANGED <<callbacks, todo>>
    /\ lock' = Unlocked
    /\ call' = [call EXCEPT ![t].cb = "", ![t].cbkey = ""]
    /\ pc' = [pc EXCEPT ![t] = "onChange"]
    /\ UNCHANGED <<regions, seqvars, r3, nops, base, epi, crashed>>

\* onChange returns (line 248) into Add, AddAll or Subtract, which return
OnChangeReturn(t) ==
    /\ ~crashed /\ pc[t] = "onChange"
    /\ todo[t] = {}
    /\ call[t].op \in {"Add", "AddAll", "Subtract"}
    /\ Return(t)
    /\ UNCHANGED <<regions, callbacks, seqvars, lock, r3, todo, nops, base, epi, crashed>>

\* flush that returns to its caller without locking the guard again
FlushNoRelock(t) ==
    /\ ~crashed /\ pc[t] = "onChange"
    /\ todo[t] = {}
    /\ call[t].op \in {"Adjust", "Clear"}
    /\ pc' = [pc EXCEPT ![t] = "deferred_Unlock"]
    /\ UNCHANGED <<regions, callbacks, seqvars, lock, call, r3, todo, nops, base, epi, crashed>>

\* onChange returns into flush, whose deferred r.lock.Lock() runs (line 79)
FlushRelock(t) ==
    /\ ~crashed /\ pc[t] = "onChange"
    /\ todo[t] = {}
    /\ call[t].op \in {"Adjust", "Clear"}
    /\ lock = Unlocked
    /\ lock' = t
    /\ pc' = [pc EXCEPT ![t] = "deferred_Unlock"]
    /\ UNCHANGED <<regions, callbacks, seqvars, call, r3, todo, nops, base, epi, crashed>>

\* the deferred r.lock.Unlock() of Adjust (line 27) and Clear (line 114)
DeferredUnlock(t) ==
    /\ ~crashed /\ pc[t] = "deferred_Unlock"
    /\ lock' = Unlocked
    /\ Return(t)
    /\ UNCHANGED <<regions, callbacks, seqvars, r3, todo, nops, base, epi, crashed>>

\* Len is called: line 128 reads r.regions without the guard
LenCall(t) ==
    /\ BeginOp(t, [IdleCall EXCEPT !.op = "Len"])
    /\ pc' = [pc EXCEPT ![t] = "Len_read"]
    /\ UNCHANGED <<regions, callbacks, seqvars, lock, r3, todo, crashed>>

\* Len, line 128
LenRead(t) ==
    /\ ~crashed /\ pc[t] = "Len_read"
    /\ Return(t)
    /\ UNCHANGED <<regions, callbacks, seqvars, lock, r3, todo, nops, base, epi, crashed>>

\* the operations that read r.regions between Lock and a deferred Unlock
GuardedReads == {"Get", "Contains", "Regions", "HasNonEmpty", "HasEmpty", "Cut"}

\* Get, Contains, Regions, HasNonEmpty, HasEmpty, Cut: r.lock.Lock()
ReadLock(t, name) ==
    /\ Idle(t)
    /\ LockFirst(t, [IdleCall EXCEPT !.op = name], "Read_body")

\* ... their reads of r.regions and the deferred Unlock
ReadBody(t) ==
    /\ ~crashed /\ pc[t] = "Read_body"
    /\ lock' = Unlocked
    /\ Return(t)
    /\ UNCHANGED <<regions, callbacks, seqvars, r3, todo, nops, base, epi, crashed>>

\* AddOnChange, line 229
AddOnChangeLock(t, key) ==
    /\ Idle(t)
    /\ LockFirst(t, [IdleCall EXCEPT !.op = "AddOnChange", !.key = key], "AddOnChange_body")

\* AddOnChange, lines 230-234, and the deferred Unlock
AddOnChangeBody(t) ==
    /\ ~crashed /\ pc[t] = "AddOnChange_body"
    /\ MapAssign(call[t].key)
    /\ lock' = Unlocked
    /\ Return(t)
    /\ UNCHANGED <<regions, seqvars, r3, nops, base, epi, crashed>>

\* ClearOnChange, line 239
ClearOnChangeLock(t, key) ==
    /\ Idle(t)
    /\ LockFirst(t, [IdleCall EXCEPT !.op = "ClearOnChange", !.key = key], "ClearOnChange_body")

\* ClearOnChange, lines 240-241, and the deferred Unlock
ClearOnChangeBody(t) ==
    /\ ~crashed /\ pc[t] = "ClearOnChange_body"
    /\ MapDelete(call[t].key)
    /\ lock' = Unlocked
    /\ Return(t)
    /\ UNCHANGED <<regions, seqvars, r3, nops, base, epi, crashed>>

\* thread u is writing r.onChangeCallbacks
MapWriting(u) ==
    \/ pc[u] \in {"AddOnChange_body", "ClearOnChange_body"}
    \/ pc[u] = "cb_body" /\ call[u].cb \in {"AddOnChange", "ClearOnChange"}

\* thread t is reading r.onChangeCallbacks in the range loop of onChange
\* (line 245) while another thread u writes it
MapRace(t, u) ==
    /\ t # u
    /\ pc[t] = "onChange"
    /\ MapWriting(u)

\* the Go runtime detects the concurrent map iteration and map write and
\* stops the program
MapRaceFatal ==
    /\ ~crashed
    /\ \E t \in Threads, u \in Threads : MapRace(t, u)
    /\ crashed' = TRUE
    /\ UNCHANGED <<regions, callbacks, seqvars, lock, pc, call, r3, todo, nops, base, epi>>

NextThreads ==
    \/ \E t \in Threads, r2 \in ThreadRegion : AddLock(t, r2)
    \/ \E t \in Threads : AddBody(t)
    \/ \E t \in Threads, rs \in ThreadBatches : AddAllLock(t, rs)
    \/ \E t \in Threads : AddAllBody(t)
    \/ \E t \in Threads, r2 \in ThreadRegion : SubtractCutLock(t, r2)
    \/ \E t \in Threads : SubtractCut(t)
    \/ \E t \in Threads : SubtractLock(t)
    \/ \E t \in Threads : SubtractSwap(t)
    \/ \E t \in Threads, position \in 0..NotifyCoord, delta \in ThreadDeltas : AdjustLock(t, position, delta)
    \/ \E t \in Threads : AdjustBody(t)
    \/ \E t \in Threads : ClearLock(t)
    \/ \E t \in Threads : ClearBody(t)
    \/ \E t \in Threads, key \in Keys, name \in CallbackCalls : OnChangeCall(t, key, name)
    \/ \E t \in Threads : CallbackLock(t)
    \/ \E t \in Threads : CallbackBody(t)
    \/ \E t \in Threads : OnChangeReturn(t)
    \/ \E t \in Threads : FlushRelock(t)
    \/ \E t \in Threads : DeferredUnlock(t)
    \/ \E t \in Threads : LenCall(t)
    \/ \E t \in Threads : LenRead(t)
    \/ \E t \in Threads, name \in GuardedReads : ReadLock(t, name)
    \/ \E t \in Threads : ReadBody(t)
    \/ \E t \in Threads, key \in Keys : AddOnChangeLock(t, key)
    \/ \E t \in Threads : AddOnChangeBody(t)
    \/ \E t \in Threads, key \in Keys : ClearOnChangeLock(t, key)
    \/ \E t \in Threads : ClearOnChangeBody(t)
    \/ MapRaceFatal

SpecThreads == Init /\ [][NextThreads]_vars

\* ------------------------------------------------------------- properties
SetOf(seq) == {seq[k] : k \in 1..Len(seq)}

\* two regions share only an endpoint
Adjacent(a, b) == End(a) = Begin(b) \/ End(b) = Begin(a)

\* a pair of stored regions the non-overlap invariant allows: not equal, not
\* intersecting, and neither covers the other unless they only share an endpoint
PairOK(a, b) ==
    /\ a # b
    /\ ~Intersects(a, b)
    /\ (Covers(a, b) \/ Covers(b, a)) => Adjacent(a, b)

NonOverlap(regs) ==
    \A i \in 1..Len(regs), j \in 1..Len(regs) : i # j => PairOK(regs[i], regs[j])


\* C1: after every Add, AddAll, Subtract and Adjust, started from the empty set,
\* no two stored regions at distinct positions are equal, intersect or cover one
\* another (regions that only share an endpoint are allowed).
C1_NonOverlap == NonOverlap(regions)

\* A and B overlap: they are equal or share more than a point
Overlapping(a, b) == Intersects(a, b)

\* C2: on the empty set, Add(A) then Add(B) with A and B overlapping leaves
\* exactly one region, Cover(A, B); three mutually overlapping regions added in
\* any order leave exactly one region, the union of the three.
C2_UnionCorrect ==
    /\ (adds # NoAdds /\ Len(adds) = 2 /\ Overlapping(adds[1], adds[2]))
          => regions = <<Cover(adds[1], adds[2])>>
    /\ (Len(adds) = 3 /\ Overlapping(adds[1], adds[2]) /\ Overlapping(adds[1], adds[3])
                      /\ Overlapping(adds[2], adds[3]))
          => regions = <<Cover(Cover(adds[1], adds[2]), adds[3])>>

\* three distinct, mutually overlapping regions were added and one region is stored
C2_Witness ==
    /\ adds = <<(<<1, 3>>), (<<0, 2>>), (<<1, 2>>)>>
    /\ regions = <<(<<0, 3>>)>>

Perms3 == {p \in [1..3 -> 1..3] : \A i \in 1..3, j \in 1..3 : i # j => p[i] # p[j]}

\* Add of the three entries of rs in the order p
AddInOrder(regs, rs, p) ==
    AddRegions(AddRegions(AddRegions(regs, rs[p[1]]), rs[p[2]]), rs[p[3]])

\* C3: from a set that satisfies the non-overlap invariant, AddAll([A, B, C])
\* leaves the same set of stored regions as Add(A), Add(B), Add(C) run in any
\* of the six orders.
C3_BatchEquivalence ==
    [][\A rs \in Batches :
          (Len(rs) = 3 /\ NonOverlap(regions) /\ AddAll(rs))
             => \A p \in Perms3 : SetOf(regions') = SetOf(AddInOrder(regions, rs, p))]_vars

\* two distinct regions touch at an endpoint and share no interior
TouchOnly(a, b) == a # b /\ ~Intersects(a, b) /\ Adjacent(a, b)

\* C4: on the empty set, adding two regions that touch only at an endpoint, in
\* either order, leaves the two regions stored; adding the same region twice
\* leaves one.
C4_Adjacency ==
    (adds # NoAdds /\ Len(adds) = 2)
       => /\ TouchOnly(adds[1], adds[2]) => regions = <<adds[1], adds[2]>>
          /\ adds[1] = adds[2] => regions = <<adds[1]>>

\* the non-empty remainders of the stored regions from position k on, in order
RECURSIVE Remainders(_, _, _)
Remainders(regs, x, k) ==
    IF k > Len(regs) THEN <<>>
    ELSE SelectSeq(RegionCut(regs[k], x), LAMBDA y : ~Empty(y)) \o Remainders(regs, x, k + 1)

\* C5: on a set that satisfies the non-overlap invariant, Subtract(x) leaves
\* exactly the non-empty remainders of every stored region, in stored order,
\* and the result satisfies the invariant; [1,8] minus [4,5] is [1,4], [5,8].
C5_SubtractResult ==
    [][(op' = "Subtract" /\ NonOverlap(regions))
          => /\ regions' = Remainders(regions, arg'[1], 1)
             /\ NonOverlap(regions')
             /\ CutRegions(<<(<<1, 8>>)>>, <<4, 5>>) = <<(<<1, 4>>), (<<5, 8>>)>>]_vars

\* Subtract split a stored region in two
C5_Witness ==
    /\ op = "Subtract" /\ arg = <<(<<1, 2>>)>>
    /\ regions = <<(<<0, 1>>), (<<2, 3>>)>>

\* C6: each Add, AddAll, Subtract, Adjust and Clear invokes every registered
\* callback exactly once (and no other), whatever it merges and also when the
\* contents do not change.
C6_NotifyOnce ==
    op \in Mutators => \A k \in Keys : fired[k] = (IF k \in callbacks THEN 1 ELSE 0)

\* AddAll merged two entries away, with two callbacks registered
C6_Witness ==
    /\ op = "AddAll" /\ merged = 2
    /\ callbacks = Keys /\ \A k \in Keys : fired[k] = 1

\* the positions at which a thread holds the guard and its next step, which
\* needs nothing from other threads, unlocks it
Releasing ==
    {"Add_body", "AddAll_body", "Cut_body", "Subtract_swap", "Adjust_body", "Clear_body",
     "Read_body", "AddOnChange_body", "ClearOnChange_body", "cb_body", "deferred_Unlock"}

\* the positions inside the range loop of onChange at which a callback is about
\* to run, or has started and waits for the guard
Dispatching == {"onChange", "cb_lock"}

\* C7: while a thread dispatches callbacks for Add, AddAll, Subtract, Adjust or
\* Clear it does not hold the guard, so that a callback's call into the set
\* (Regions, AddOnChange, ClearOnChange) finds the guard free or held by another
\* thread that is about to unlock it, and so does the re-lock that lets Adjust
\* and Clear return: no thread waits for a guard it holds itself.
C7_ReentrantDispatch ==
    \A t \in Threads :
        pc[t] \in Dispatching =>
            /\ lock # t
            /\ lock # Unlocked => pc[lock] \in Releasing

\* a callback dispatched by Adjust is inside its own ClearOnChange, holding the
\* guard it took while Adjust was dispatching
C7_Witness ==
    \E t \in Threads :
        /\ pc[t] = "cb_body" /\ lock = t
        /\ call[t].op = "Adjust" /\ call[t].cb = "ClearOnChange"

\* the sequence a mutating operation leaves when it runs alone on regs
Apply(regs, c) ==
    CASE c.op = "Add" -> AddRegions(regs, c.rs[1])
      [] c.op = "AddAll" -> AddAllRegions(regs, c.rs)
      [] c.op = "Subtract" -> CutRegions(regs, c.rs[1])
      [] c.op = "Adjust" -> AdjustRegions(regs, c.pd[1], c.pd[2])
      [] c.op = "Clear" -> flushRegions(SubSeq(regs, 1, 0))
      [] OTHER -> regs

\* C8: when two mutating operations overlapped in time and both have returned,
\* the stored sequence is the one that running the two, one after the other in
\* one of the two orders, leaves from the sequence they started from.
C8_Linearizable ==
    (NoMutation /\ Len(epi) = 2) =>
        \/ regions = Apply(Apply(base, epi[1]), epi[2])
        \/ regions = Apply(Apply(base, epi[2]), epi[1])

\* the positions at which a public operation reads or writes r.regions
SequenceAccess ==
    {"Add_body", "AddAll_body", "Cut_body", "Subtract_swap", "Adjust_body", "Clear_body",
     "Read_body", "Len_read"}

\* ... and those at which it writes r.regions
SequenceWrite == {"Add_body", "AddAll_body", "Subtract_swap", "Adjust_body", "Clear_body"}

\* C9: a thread that reads or writes the stored sequence in Add, AddAll,
\* Subtract, Adjust, Clear, Get, Len, Contains, Regions, HasEmpty, HasNonEmpty
\* or Cut holds the guard, and no thread reads the sequence while another
\* thread writes it.
C9_GuardedSequence ==
    \A t \in Threads :
        pc[t] \in SequenceAccess =>
            /\ lock = t
            /\ \A u \in Threads \ {t} : pc[u] \notin SequenceWrite

\* C10: no thread iterates the callback map for dispatch while another thread
\* writes the map through AddOnChange or ClearOnChange.
C10_GuardedRegistry ==
    \A t \in Threads, u \in Threads : ~MapRace(t, u)

\* C11: Cut(x) leaves the receiver's sequence and registry as they were and
\* invokes none of the receiver's callbacks; the set it returns has an empty
\* registry, and an Add on that set changes neither the receiver's sequence
\* nor its registry and invokes none of the receiver's callbacks.
C11_CutDetached ==
    [][/\ op' = "Cut" =>
              /\ regions' = regions /\ callbacks' = callbacks
              /\ fired' = NoneFired
              /\ cut'.callbacks = {}
       /\ op' = "ret.Add" =>
              /\ regions' = regions /\ callbacks' = callbacks
              /\ fired' = NoneFired]_vars

\* the returned set was changed by an Add, and what it holds now would show
\* in the receiver, which has two regions and two callbacks, if the two
\* shared an array
C11_Witness ==
    /\ op = "ret.Add" /\ cut.returned
    /\ callbacks = Keys
    /\ Len(regions) = 2
    /\ Overwritten(regions, cut.regions) # regions

\* C12: Get(i) with i outside [0, len) panics instead of handing out a region,
\* Get(i) with i inside hands out the region at position i, and either way the
\* stored sequence is as it was and the guard is not held afterwards.
C12_GetRange ==
    [][op' = "Get" =>
          LET i == arg'[1]
          IN /\ regions' = regions
             /\ lock' = Unlocked
             /\ (i < 0 \/ i >= Len(regions)) => out'.kind = "panic"
             /\ (0 <= i /\ i < Len(regions)) => out' = [kind |-> "region", val |-> regions[i + 1]]]_vars

\* Get has panicked on a set of two regions
C12_Witness ==
    /\ op = "Get" /\ out.kind = "panic"
    /\ Len(regions) = 2
    /\ lock = Unlocked

\* the stored regions are all empty, or all non-empty
OneKind(regs) ==
    \/ \A k \in 1..Len(regs) : Begin(regs[k]) = End(regs[k])
    \/ \A k \in 1..Len(regs) : Begin(regs[k]) # End(regs[k])

RemoveAt(s, p) == SubSeq(s, 1, p - 1) \o SubSeq(s, p + 1, Len(s))

\* the entries of regs that x does not overlap, in their order
Untouched(regs, x) == SelectSeq(regs, LAMBDA s : ~isOverlap(x, s))

\* the union of acc with the entries of regs, from the k-th on, that x overlaps
RECURSIVE UnionWith(_, _, _, _)
UnionWith(acc, regs, x, k) ==
    IF k > Len(regs) THEN acc
    ELSE UnionWith(IF isOverlap(x, regs[k]) THEN Cover(acc, regs[k]) ELSE acc, regs, x, k + 1)

\* new holds the entries of regs that x does not overlap, in their order, and
\* one more entry: the union of x with the entries it overlaps
AddFrame(regs, x, new) ==
    \E p \in 1..Len(new) :
        /\ new[p] = UnionWith(x, regs, x, 1)
        /\ RemoveAt(new, p) = Untouched(regs, x)

\* C14: on a set that satisfies the non-overlap invariant, Add(x) leaves
\* exactly the stored regions x does not overlap, unchanged and in their
\* order, and one region equal to the union of x with the regions it overlaps.
C14_AddFrame ==
    [][\A x \in Region :
          (NonOverlap(regions) /\ Add(x)) => AddFrame(regions, x, regions')]_vars

\* the entries of regs at the 0-based positions from i on that are not in
\* removed, the one at target replaced by value
RECURSIVE Compacted(_, _, _, _, _)
Compacted(regs, target, removed, value, i) ==
    IF i >= Len(regs) THEN <<>>
    ELSE (CASE i = target -> <<value>>
            [] i \in removed -> <<>>
            [] OTHER -> <<At(regs, i)>>)
         \o Compacted(regs, target, removed, value, i + 1)

\* the union of acc with the entries of regs named by the list, from its k-th on
RECURSIVE UnionOf(_, _, _, _)
UnionOf(acc, regs, list, k) ==
    IF k > Len(list) THEN acc
    ELSE UnionOf(Cover(acc, At(regs, list[k])), regs, list, k + 1)

\* C15: for any sequence, target index and ascending list of distinct indices
\* other than the target, merge leaves the sequence without the listed
\* entries, the target replaced by the union of itself and the listed
\* entries, every other entry kept in its order.
C15_MergeCompaction ==
    [][op' = "merge" =>
          LET target == arg'[1]
              list == arg'[2]
              removed == {list[k] : k \in 1..Len(list)}
          IN regions' = Compacted(regions, target, removed,
                                  UnionOf(At(regions, target), regions, list, 1), 0)]_vars

\* C16: one run of flush, on any sequence, leaves no two entries equal,
\* intersecting or covering one another, and every entry of the input is
\* covered by an entry of the output.
C16_FlushPostcondition ==
    [][op' = "flush" =>
          /\ NonOverlap(regions')
          /\ \A k \in 1..Len(regions) : \E j \in 1..Len(regions') : Covers(regions'[j], regions[k])]_vars

\* the loop of AddAll (lines 148-157) from the k-th entry of the reduced batch
\* on, followed with pre, the number of entries stored before the call that
\* are still stored: at the start of every iteration start equals pre
RECURSIVE StartTracksPrefix(_, _, _, _, _)
StartTracksPrefix(regs, rs, k, start, pre) ==
    IF k > Len(rs) THEN TRUE
    ELSE /\ start = pre
         /\ LET ov == overlaps(regs, rs[k], 0, start)
            IN IF Len(ov) = 0 THEN StartTracksPrefix(regs, rs, k + 1, start, pre)
               ELSE LET ov2 == Append(Tail(ov), Len(regs) - 1)
                    IN StartTracksPrefix(merge(regs, ov[1], ov2), rs, k + 1,
                                         start - Len(ov2), pre - Len(Tail(ov)))

\* C17: while AddAll goes through the appended batch, at the start of each
\* iteration start equals the number of entries stored before the call that
\* are still stored.
C17_StartCounter ==
    [][\A rs \in Batches :
          (NonOverlap(regions) /\ AddAll(rs)) =>
              LET reduced == flushRegions(rs)
              IN StartTracksPrefix(regions \o reduced, reduced, 1, Len(regions), Len(regions))]_vars

\* neither region overlaps the other, whichever is taken as the reference
Disjoint(a, b) == ~isOverlap(a, b) /\ ~isOverlap(b, a)

\* the regions of the batch are pairwise disjoint
DisjointBatch(rs) == \A i \in 1..Len(rs), j \in 1..Len(rs) : i # j => Disjoint(rs[i], rs[j])

\* C18: on a set that satisfies the non-overlap invariant, AddAll of pairwise
\* disjoint regions stores unchanged every region of the batch that overlaps
\* no region stored before, and folds every other region of the batch into a
\* stored region that covers it.
C18_MergeTarget ==
    [][\A rs \in Batches :
          (NonOverlap(regions) /\ DisjointBatch(rs) /\ AddAll(rs)) =>
              \A k \in 1..Len(rs) :
                  IF \A i \in 1..Len(regions) : Disjoint(rs[k], regions[i])
                  THEN rs[k] \in SetOf(regions')
                  ELSE \E j \in 1..Len(regions') : Covers(regions'[j], rs[k])]_vars

\* C19: a thread unlocks the guard only while it holds it (so flush, entered
\* from the guarded body of Adjust or Clear, is entered with the guard held,
\* and the deferred Unlock that follows flush finds it held again), and a
\* thread that has returned from its operation does not hold the guard.
C19_LockBalance ==
    \A t \in Threads :
        /\ pc[t] \in Releasing => lock = t
        /\ pc[t] = "idle" => lock # t

\* Clear is back from flush, which dispatched to a registered callback, and
\* holds the guard again for its deferred Unlock
C19_Witness ==
    \E t \in Threads :
        /\ pc[t] = "deferred_Unlock" /\ lock = t
        /\ call[t].op = "Clear"
        /\ callbacks # {}

\* C20: after AddAll(rs) the caller's slice rs holds the regions it held
\* before the call, in the same positions.
C20_ArgumentUntouched ==
    [][\A rs \in NotifyBatches : AddAllCaller(rs) => out'.val = rs]_vars

====
